---- MODULE Spec2Model ----
(***************************************************************************)
(* Rule-driven notifications, notification delivery and the ML prediction  *)
(* service of the student-performance backend                              *)
(* (backend/notifications/notification_service.py, notifications/models.py,*)
(* notifications/views.py, predictions/ml_service.py, predictions/views.py).*)
(*                                                                         *)
(* Time is counted in minutes.  Numbers that the code keeps as float or    *)
(* Decimal are kept exact: a trigger value is a fraction n/d tagged with   *)
(* the Python type the code computes it in, a threshold is a number of     *)
(* thousandths (DecimalField(decimal_places=3)), a GPA and a predicted     *)
(* value are numbers of hundredths.                                        *)
(***************************************************************************)
EXTENDS Integers, Sequences, FiniteSets, TLC

VARIABLES
    now,        \* timezone.now(), minutes
    ticks,      \* number of clock advances so far
    logs,       \* NotificationLog rows, in insertion order
    notifs,     \* Notification rows, in insertion order
    lastEval,   \* what the last evaluate_notification_rules call did and returned
    lastSend,   \* what the last send_pending_notifications call did and returned
    models,     \* PredictionModel rows, in insertion order
    files,      \* paths that exist on disk
    svc,        \* ml_service: the (model, scaler) pair held in memory
    lastPred,   \* what the last predict_performance / batch_predict call returned
    lastTrain,  \* what the last train_model call did
    lastAct,    \* what the last activate call did
    recs,       \* Recommendation rows, in insertion order
    lastGen,    \* what the last generate_recommendations call did and returned
    riskIn,     \* bucketing: the (predicted_value, prediction_type) drawn
    riskOut,    \* bucketing: the risk level computed for riskIn
    fnIn,       \* a function taken on its own: the function and the arguments drawn
    fnOut,      \* a function taken on its own: what it returned for fnIn
    evals,      \* per worker, the evaluate_notification_rules call it is inside
    swap        \* per worker, the activate request it is inside

vars == <<now, ticks, logs, notifs, lastEval, lastSend,
          models, files, svc, lastPred, lastTrain, lastAct, recs, lastGen,
          riskIn, riskOut,
          fnIn, fnOut, evals, swap>>
notifVars == <<now, ticks, logs, notifs, lastEval, lastSend>>
mlVars == <<models, files, svc, lastPred, lastTrain, lastAct>>
recVars == <<recs, lastGen>>
riskVars == <<riskIn, riskOut, fnIn, fnOut>>
concVars == <<evals, swap>>

\* None, for a value that is otherwise a record or a sequence; an optional
\* number is <<>> or <<n>>
NULL == [none |-> TRUE]

(***************************************************************************)
(* Bounds of the model.                                                    *)
(***************************************************************************)
MaxTicks == 2
MaxLogs == 3
MaxNotifs == 4
MaxQueued == 2
MaxModels == 2
MaxBatch == 3
MaxValue == 400
MaxOffset == 25
MaxCalls == 2
MaxPreds == 2
MaxAttendance == 2

Hour == 60
Day == 24 * Hour

Abs(x) == IF x < 0 THEN -x ELSE x

RECURSIVE SumSeq(_)
SumSeq(s) == IF s = <<>> THEN 0 ELSE Head(s) + SumSeq(Tail(s))

FirstN(s, n) == SubSeq(s, 1, IF Len(s) < n THEN Len(s) ELSE n)

Range(s) == {s[i] : i \in DOMAIN s}

(***************************************************************************)
(* The data store the rule engine reads: users, preferences, classes,      *)
(* enrollments, students, templates and rules.                             *)
(***************************************************************************)
UserSeq == <<"adm", "admt", "tch", "u1", "u2", "u3">>
Users == Range(UserSeq)

UserRole ==
    [u \in Users |->
        CASE u = "adm" -> "administrator"
          [] u = "admt" -> "administrator"
          [] u = "tch" -> "teacher"
          [] OTHER -> "student"]

AllOn ==
    [email_enabled |-> TRUE, sms_enabled |-> FALSE, push_enabled |-> TRUE,
     grade_alerts |-> TRUE, attendance_warnings |-> TRUE,
     behavior_incidents |-> TRUE, prediction_alerts |-> TRUE,
     recommendation_assignments |-> TRUE, assignment_reminders |-> TRUE,
     system_announcements |-> TRUE]

\* user.notification_preferences: NULL when the user has no preference row
Preferences ==
    [u \in Users |->
        CASE u = "tch" -> [AllOn EXCEPT !.attendance_warnings = FALSE]
          [] u = "u2" -> [AllOn EXCEPT !.email_enabled = FALSE]
          [] u = "admt" -> AllOn
          [] OTHER -> NULL]

\* Class.teacher
ClassTeacher == [c \in {"c1", "c2", "c3"} |->
                    CASE c = "c1" -> "tch" [] c = "c2" -> "admt" [] OTHER -> "tch"]

\* Enrollment rows
Enrollments ==
    {[student |-> "s1", class |-> "c1", status |-> "enrolled"],
     [student |-> "s1", class |-> "c2", status |-> "enrolled"],
     [student |-> "s1", class |-> "c3", status |-> "enrolled"],
     [student |-> "s2", class |-> "c1", status |-> "dropped"]}

StudentSeq == <<"s1", "s2", "s3">>
Students == Range(StudentSeq)

\* StudentProfile with the rows that hang off it.  grades: Grade.percentage
\* of the student's grades, newest first; gpa in hundredths, <<>> when null;
\* attendance: Attendance.status values; behavior: BehaviorRecord rows;
\* predictions: PerformancePrediction rows, newest first; recs:
\* Recommendation rows.
Student ==
    [s \in Students |->
        IF s = "s1"
        THEN [user |-> "u1", gpa |-> <<180>>, grades |-> <<50, 60>>,
              attendance |-> <<"present", "absent">>,
              behavior |-> <<[behavior_type |-> "negative", incident_date |-> -Day]>>,
              predictions |-> <<[risk_level |-> "low", is_active |-> TRUE],
                                [risk_level |-> "critical", is_active |-> TRUE]>>,
              recs |-> <<[status |-> "pending", due_date |-> -Hour]>>]
        ELSE [user |-> IF s = "s2" THEN "u2" ELSE "u3",
              gpa |-> IF s = "s2" THEN <<0>> ELSE <<>>,
              grades |-> <<>>,
              attendance |-> <<>>,
              behavior |-> <<>>,
              predictions |-> <<>>,
              recs |-> <<>>]]

TemplateIds == {"tAtt", "tGrade", "tBeh", "tConf"}

NotificationTemplate ==
    [t \in TemplateIds |->
        CASE t = "tAtt" -> [notification_type |-> "attendance_warning", delay_minutes |-> 0]
          [] t = "tGrade" -> [notification_type |-> "grade_alert", delay_minutes |-> 0]
          [] t = "tBeh" -> [notification_type |-> "behavior_incident", delay_minutes |-> 0]
          [] OTHER -> [notification_type |-> "parent_conference", delay_minutes |-> Hour]]

RuleSeq == <<"r1", "r2", "r3", "r4">>
RuleIds == Range(RuleSeq)

\* NotificationRule rows; threshold_value in thousandths
NotificationRule ==
    [r \in RuleIds |->
        CASE r = "r1" ->
               [trigger_type |-> "attendance_rate", condition |-> "ne",
                threshold_value |-> 100000, cooldown_hours |-> 24,
                target_roles |-> <<"student">>,
                template |-> "tAtt", is_active |-> TRUE]
          [] r = "r2" ->
               [trigger_type |-> "grade_threshold", condition |-> "lt",
                threshold_value |-> 60000, cooldown_hours |-> 24,
                target_roles |-> <<"teacher", "student">>,
                template |-> "tGrade", is_active |-> TRUE]
          [] r = "r3" ->
               [trigger_type |-> "attendance_rate", condition |-> "lt",
                threshold_value |-> 80000, cooldown_hours |-> 24,
                target_roles |-> <<"administrator", "teacher">>,
                template |-> "tAtt", is_active |-> TRUE]
          [] OTHER ->
               [trigger_type |-> "behavior_incident", condition |-> "gte",
                threshold_value |-> 1000, cooldown_hours |-> 0,
                target_roles |-> <<"parent", "administrator", "teacher">>,
                template |-> "tBeh", is_active |-> FALSE]]

(***************************************************************************)
(* Rule engine: notification_service.py                                    *)
(***************************************************************************)

\* _get_user_preferences
GetUserPreferences(user) == Preferences[user]

\* _should_send_notification: the channel switches, then the per-type map
\* (a type the map does not hold, such as parent_conference, is allowed)
ShouldSendNotification(template, preferences, channel) ==
    IF preferences = NULL THEN TRUE
    ELSE IF channel = "email" /\ ~preferences.email_enabled THEN FALSE
    ELSE IF channel = "sms" /\ ~preferences.sms_enabled THEN FALSE
    ELSE IF channel = "push" /\ ~preferences.push_enabled THEN FALSE
    ELSE LET ty == NotificationTemplate[template].notification_type IN
         CASE ty = "grade_alert" -> preferences.grade_alerts
           [] ty = "attendance_warning" -> preferences.attendance_warnings
           [] ty = "behavior_incident" -> preferences.behavior_incidents
           [] ty = "prediction_alert" -> preferences.prediction_alerts
           [] ty = "recommendation_assigned" -> preferences.recommendation_assignments
           [] ty = "assignment_due" -> preferences.assignment_reminders
           [] ty = "system_announcement" -> preferences.system_announcements
           [] OTHER -> TRUE

\* json.dumps of context_data in Notification.objects.create: a Decimal in
\* the context is not JSON serializable and the save raises TypeError
JsonSerializable(context) ==
    ~("trigger_value" \in DOMAIN context /\ context.trigger_value.t = "Decimal")

\* create_notification: NULL when the preferences block it or anything raises
\* (the except clause), else the Notification row it inserts.  rule is the
\* 'rule_name' entry of context_data, "" for a notification no rule made;
\* scheduled_at is <<>> for None.  history lists every value a save() has
\* written to status, in order; it stands for the sent_at, delivered_at and
\* read_at stamps, which are written together with status.
CreateNotification(template, recipient, context, student, channel, scheduled_at, t) ==
    IF ~ShouldSendNotification(template, GetUserPreferences(recipient), channel)
    THEN NULL
    ELSE IF ~JsonSerializable(context) THEN NULL
    ELSE [template |-> template, recipient |-> recipient, channel |-> channel,
          status |-> "pending", student |-> student,
          rule |-> IF "rule_name" \in DOMAIN context THEN context.rule_name ELSE "",
          scheduled_at |-> IF scheduled_at = <<>>
                           THEN t + NotificationTemplate[template].delay_minutes
                           ELSE scheduled_at[1],
          delivery_attempts |-> 0, last_error |-> "",
          history |-> <<"pending">>]

\* _is_rule_in_cooldown
IsRuleInCooldownStrict(lg, t, rule, student) ==
    LET r == NotificationRule[rule] IN
    IF r.cooldown_hours <= 0 THEN FALSE
    ELSE \E i \in DOMAIN lg :
            /\ lg[i].rule = rule
            /\ lg[i].student = student
            /\ lg[i].triggered_at > t - r.cooldown_hours * Hour

IsRuleInCooldown(lg, t, rule, student) ==
    LET r == NotificationRule[rule] IN
    IF r.cooldown_hours <= 0 THEN FALSE
    ELSE \E i \in DOMAIN lg :
            /\ lg[i].rule = rule
            /\ lg[i].student = student
            /\ lg[i].triggered_at >= t - r.cooldown_hours * Hour

Float(n) == [n |-> n, d |-> 1, t |-> "float"]

\* the first of the active predictions, newest first, whatever its risk level
LatestActivePrediction(predictions) ==
    LET rows == SelectSeq(predictions, LAMBDA p : p.is_active)
    IN IF rows # <<>> THEN Head(rows) ELSE NULL

\* filter(risk_level__in=[HIGH, CRITICAL], is_active=True)
\*     .order_by('-prediction_date').first(); predictions are newest first
LatestHighRiskPrediction(predictions) ==
    LET rows == SelectSeq(predictions,
                    LAMBDA p : p.risk_level \in {"high", "critical"} /\ p.is_active)
    IN IF rows # <<>> THEN Head(rows) ELSE NULL

\* _get_trigger_value.  Grade.percentage and StudentProfile.gpa are Decimal,
\* so the grade branch yields a Decimal; the other branches yield floats.
TriggerValue(trigger_type, s, t) ==
    CASE trigger_type = "grade_threshold" ->
           LET recent_grades == FirstN(s.grades, 10) IN
           IF recent_grades # <<>>
           THEN [n |-> SumSeq(recent_grades), d |-> Len(recent_grades), t |-> "Decimal"]
           ELSE IF s.gpa # <<>> /\ s.gpa[1] # 0
                THEN [n |-> s.gpa[1] * 25, d |-> 100, t |-> "Decimal"]
                ELSE NULL
      [] trigger_type = "attendance_rate" ->
           IF s.attendance # <<>>
           THEN LET present_count ==
                      Len(SelectSeq(s.attendance, LAMBDA a : a \in {"present", "late"}))
                IN [n |-> present_count * 100, d |-> Len(s.attendance), t |-> "float"]
           ELSE NULL
      [] trigger_type = "behavior_incident" ->
           Float(Len(SelectSeq(s.behavior,
                     LAMBDA b : /\ b.behavior_type = "negative"
                                /\ b.incident_date >= t - 30 * Day)))
      [] trigger_type = "prediction_risk" ->
           LET high_risk_prediction == LatestHighRiskPrediction(s.predictions)
           IN IF high_risk_prediction # NULL
              THEN Float(CASE high_risk_prediction.risk_level = "low" -> 1
                           [] high_risk_prediction.risk_level = "medium" -> 2
                           [] high_risk_prediction.risk_level = "high" -> 3
                           [] high_risk_prediction.risk_level = "critical" -> 4
                           [] OTHER -> 0)
              ELSE Float(0)
      [] trigger_type = "recommendation_due" ->
           Float(Len(SelectSeq(s.recs,
                     LAMBDA c : /\ c.status \in {"pending", "in_progress"}
                                /\ c.due_date < t)))
      [] OTHER -> NULL

GetTriggerValue(rule, student, t) ==
    TriggerValue(NotificationRule[rule].trigger_type, Student[student], t)

\* _evaluate_condition(condition, value, rule.threshold_value).  The threshold
\* is a Decimal: comparing it with a float is defined, subtracting it from a
\* float is a TypeError, so eq and ne raise for a float value.
EvaluateCondition(condition, value, threshold) ==
    LET lhs == value.n * 1000
        rhs == threshold * value.d
        ok(b) == [raised |-> FALSE, met |-> b]
    IN
    CASE condition = "lt" -> ok(lhs < rhs)
      [] condition = "lte" -> ok(lhs <= rhs)
      [] condition = "gt" -> ok(lhs > rhs)
      [] condition = "gte" -> ok(lhs >= rhs)
      [] condition = "eq" ->
           IF value.t = "float" THEN [raised |-> TRUE, met |-> FALSE]
           ELSE ok(Abs(lhs - rhs) < value.d)
      [] condition = "ne" ->
           IF value.t = "float" THEN [raised |-> TRUE, met |-> FALSE]
           ELSE ok(Abs(lhs - rhs) >= value.d)
      [] OTHER -> ok(FALSE)

\* _get_target_users: the users of every target role, then list(set(users))
GetTargetUsers(target_roles, student) ==
    LET of(role) ==
          CASE role = "administrator" ->
                 {u \in Users : UserRole[u] = "administrator"}
            [] role = "teacher" ->
                 {ClassTeacher[e.class] :
                     e \in {x \in Enrollments : x.student = student /\ x.status = "enrolled"}}
            [] role = "student" -> {Student[student].user}
            [] OTHER -> {}
    IN UNION {of(target_roles[i]) : i \in DOMAIN target_roles}

\* _create_rule_notifications: one create_notification per target user, in
\* the iteration order of the set (taken here in the order of UserSeq);
\* returns the rows inserted, whose number is notifications_created
CreateRuleNotifications(rule, student, trigger_value, t) ==
    LET r == NotificationRule[rule]
        target_users == GetTargetUsers(r.target_roles, student)
        context_data == [student_id |-> student, trigger_value |-> trigger_value,
                         threshold_value |-> r.threshold_value, rule_name |-> rule]
        made(u) == CreateNotification(r.template, u, context_data, student,
                                      "in_app", <<>>, t)
    IN SelectSeq([i \in DOMAIN UserSeq |->
                     IF UserSeq[i] \in target_users THEN made(UserSeq[i]) ELSE NULL],
                 LAMBDA n : n # NULL)

\* The body of the loop of evaluate_notification_rules for one (rule, student)
\* pair.  st carries the rows so far, the running notifications_created and,
\* in trace, what was done with each pair.
ProcessPair(st, rule, student, t) ==
    LET r == NotificationRule[rule]
        entry(outcome, tv, n) ==
            [rule |-> rule, student |-> student, outcome |-> outcome,
             trigger_value |-> tv, notifications_created |-> n]
        skip(outcome, tv) == [st EXCEPT !.trace = Append(@, entry(outcome, tv, 0))]
    IN
    IF IsRuleInCooldown(st.logs, t, rule, student) THEN skip("cooldown", NULL)
    ELSE LET trigger_value == GetTriggerValue(rule, student, t) IN
         IF trigger_value = NULL THEN skip("null", NULL)
         ELSE LET c == EvaluateCondition(r.condition, trigger_value, r.threshold_value) IN
              IF c.raised THEN skip("raised", trigger_value)
              ELSE IF ~c.met THEN skip("false", trigger_value)
              ELSE LET made == CreateRuleNotifications(rule, student, trigger_value, t) IN
                   [logs |-> Append(st.logs,
                                [rule |-> rule, student |-> student, triggered_at |-> t,
                                 trigger_value |-> trigger_value,
                                 notifications_created |-> Len(made)]),
                    notifs |-> st.notifs \o made,
                    created |-> st.created + Len(made),
                    trace |-> Append(st.trace, entry("fired", trigger_value, Len(made)))]

\* except Exception inside the loop: the error is logged and the loop goes on
AbortsBatchOnError(st) ==
    st.trace # <<>> /\ st.trace[Len(st.trace)].outcome = "raised"

AbortsBatch(st) == FALSE

RECURSIVE EvalPairs(_, _, _)
EvalPairs(pairs, st, t) ==
    IF pairs = <<>> THEN st
    ELSE LET st1 == ProcessPair(st, Head(pairs)[1], Head(pairs)[2], t) IN
         IF AbortsBatch(st1) THEN st1 ELSE EvalPairs(Tail(pairs), st1, t)

\* for rule in rules: for student in students
PairSeq(rules, students) ==
    [k \in 1..(Len(rules) * Len(students)) |->
        <<rules[((k - 1) \div Len(students)) + 1],
          students[((k - 1) % Len(students)) + 1]>>]

ActiveRules == SelectSeq(RuleSeq, LAMBDA r : NotificationRule[r].is_active)

\* evaluate_notification_rules(students, rules); an argument is <<>> for
\* None and <<list>> for a list
EvaluateNotificationRules(studentsArg, rulesArg) ==
    LET students == IF studentsArg = <<>> THEN StudentSeq ELSE studentsArg[1]
        rules == IF rulesArg = <<>> THEN ActiveRules ELSE rulesArg[1]
        st == EvalPairs(PairSeq(rules, students),
                        [logs |-> logs, notifs |-> notifs, created |-> 0, trace |-> <<>>],
                        now)
    IN /\ Len(st.logs) <= MaxLogs
       /\ Len(st.notifs) <= MaxNotifs
       /\ logs' = st.logs
       /\ notifs' = st.notifs
       /\ lastEval' = [students |-> students, rules |-> rules, at |-> now,
                       logs0 |-> Len(logs), notifs0 |-> Len(notifs),
                       trace |-> st.trace,
                       returned |-> [rules_evaluated |-> Len(rules),
                                     students_evaluated |-> Len(students),
                                     notifications_created |-> st.created]]
       /\ UNCHANGED <<now, ticks, lastSend>>

\* trigger_notification_rules: one student or all, one rule or the active ones
TriggerNotificationRules ==
    \E studentsArg \in {<<>>} \cup {<< <<s>> >> : s \in {"s1", "s2"}},
       rulesArg \in {<<>>} \cup {<< <<r>> >> : r \in RuleIds} :
        EvaluateNotificationRules(studentsArg, rulesArg)

\* test_notification_rule reporting the condition as met for a null value
TestNotificationRuleNullMet(rule, student, t) ==
    LET r == NotificationRule[rule]
        trigger_value == GetTriggerValue(rule, student, t)
        c == EvaluateCondition(r.condition, trigger_value, r.threshold_value)
        condition_met == IF trigger_value # NULL THEN c.met ELSE TRUE
    IN IF trigger_value # NULL /\ c.raised THEN [error |-> TRUE]
       ELSE [trigger_value |-> IF trigger_value # NULL
                               THEN [trigger_value EXCEPT !.t = "float"] ELSE NULL,
             condition_met |-> condition_met,
             would_create_notifications |-> condition_met]

\* test_notification_rule: the dict it returns, [error |-> TRUE] for the one
\* of the except clause; trigger_value is float(trigger_value)
TestNotificationRule(rule, student, t) ==
    LET r == NotificationRule[rule]
        trigger_value == GetTriggerValue(rule, student, t)
        c == EvaluateCondition(r.condition, trigger_value, r.threshold_value)
        condition_met == IF trigger_value # NULL THEN c.met ELSE FALSE
    IN IF trigger_value # NULL /\ c.raised THEN [error |-> TRUE]
       ELSE [trigger_value |-> IF trigger_value # NULL
                               THEN [trigger_value EXCEPT !.t = "float"] ELSE NULL,
             condition_met |-> condition_met,
             would_create_notifications |-> condition_met]

\* a call of test_notification_rule; the call and what it returned are kept
\* in fnIn and fnOut
TestRule ==
    \E rule \in RuleIds, student \in {"s1", "s2"} :
        /\ fnIn' = [fn |-> "test_notification_rule", rule |-> rule,
                    student |-> student, at |-> now]
        /\ fnOut' = TestNotificationRule(rule, student, now)
        /\ UNCHANGED <<now, ticks, logs, notifs, lastEval, lastSend, riskIn, riskOut>>

\* the clock: an hour or a day passes
Tick ==
    /\ ticks < MaxTicks
    /\ \E d \in {Hour, Day} : now' = now + d
    /\ ticks' = ticks + 1
    /\ UNCHANGED <<logs, notifs, lastEval, lastSend>>

(***************************************************************************)
(* Delivery: Notification.mark_as_* (models.py) and                        *)
(* send_pending_notifications / _deliver_notification.                     *)
(***************************************************************************)

\* Notification.mark_as_sent
MarkAsSent(n, t) ==
    [n EXCEPT !.status = "sent", !.history = Append(@, "sent")]

\* Notification.mark_as_delivered
MarkAsDelivered(n, t) ==
    [n EXCEPT !.status = "delivered", !.history = Append(@, "delivered")]

\* Notification.mark_as_failed
MarkAsFailed(n, error_message) ==
    [n EXCEPT !.status = "failed", !.last_error = error_message,
              !.delivery_attempts = @ + 1, !.history = Append(@, "failed")]

\* Notification.mark_as_read
MarkAsRead(n, t) ==
    IF n.status # "read"
    THEN [n EXCEPT !.status = "read", !.history = Append(@, "read")]
    ELSE n

\* _deliver_notification: send_mail may raise, and then the e-mail branch
\* returns False; every other branch marks the row delivered and returns True
DeliverNotification(n, mailFails, t) ==
    IF n.channel = "email" /\ mailFails
    THEN [success |-> FALSE, n |-> n]
    ELSE [success |-> TRUE, n |-> MarkAsDelivered(n, t)]

\* the body of the loop of send_pending_notifications for one row
SendOne(n, mailFails, t) ==
    LET d == DeliverNotification(n, mailFails, t) IN
    IF d.success THEN MarkAsSent(d.n, t) ELSE MarkAsFailed(d.n, "Delivery failed")

\* the pending rows, due or not
PendingWhenever(ns, t) == {i \in DOMAIN ns : ns[i].status = "pending"}

\* Notification.objects.filter(status=PENDING, scheduled_at__lte=now)
PendingDue(ns, t) ==
    {i \in DOMAIN ns : ns[i].status = "pending" /\ ns[i].scheduled_at <= t}

\* send_pending_notifications; failing: the rows for which send_mail raises
SendPendingNotifications(failing) ==
    LET due == PendingDue(notifs, now)
        after == [i \in DOMAIN notifs |->
                     IF i \in due THEN SendOne(notifs[i], i \in failing, now)
                     ELSE notifs[i]]
    IN /\ notifs' = after
       /\ lastSend' = [attempted |-> due,
                       returned |->
                           [sent |-> Cardinality({i \in due : after[i].status = "sent"}),
                            failed |-> Cardinality({i \in due : after[i].status = "failed"})]]
       /\ UNCHANGED <<now, ticks, logs, lastEval>>

SendPending ==
    \E failing \in SUBSET {i \in DOMAIN notifs : notifs[i].channel = "email"} :
        SendPendingNotifications(failing)

\* NotificationViewSet.mark_as_read, called by an administrator: the rows of
\* notification_ids that are sent or delivered are marked read
MarkAsReadView(notification_ids) ==
    /\ notifs' = [i \in DOMAIN notifs |->
                     IF i \in notification_ids /\ notifs[i].status \in {"sent", "delivered"}
                     THEN MarkAsRead(notifs[i], now)
                     ELSE notifs[i]]
    /\ UNCHANGED <<now, ticks, logs, lastEval, lastSend>>

MarkRead ==
    \E notification_ids \in SUBSET DOMAIN notifs :
        /\ notification_ids # {}
        /\ MarkAsReadView(notification_ids)

\* a direct create_notification call
CreateNotificationCall(template, recipient, channel, scheduled_at) ==
    LET made == CreateNotification(template, recipient, [source |-> "call"], "",
                                   channel, scheduled_at, now)
    IN /\ Len(notifs) < MaxQueued
       /\ notifs' = IF made = NULL THEN notifs ELSE Append(notifs, made)
       /\ UNCHANGED <<now, ticks, logs, lastEval, lastSend>>

Create ==
    \E template \in {"tConf"},
       to \in {<<"adm", "in_app">>, <<"adm", "email">>, <<"u2", "email">>},
       scheduled_at \in {<<>>, <<now>>} :
        CreateNotificationCall(template, to[1], to[2], scheduled_at)

(***************************************************************************)
(* The prediction service (predictions/ml_service.py) and the model        *)
(* records it reads (predictions/models.py, predictions/views.py).  A path *)
(* is <<>> when the column is blank; a file on disk is a [path, content]   *)
(* pair; the content of a model file is the estimator joblib.dump wrote.   *)
(***************************************************************************)
PredictionTypes == {"grade", "dropout", "graduation", "subject"}

\* os.path.exists
Exists(fs, path) == \E f \in fs : f.path = path

\* joblib.load
JoblibLoad(fs, path) == (CHOOSE f \in fs : f.path = path).content

\* the newest record whatever its status; 0 when there is none
NewestRecord(ms) == Len(ms)

\* the record load_model() picks when it is given no id: the newest ACTIVE
\* record (order_by('-created_at').first()); 0 when there is none
NewestActive(ms) ==
    LET active == {i \in DOMAIN ms : ms[i].status = "active"}
    IN IF active = {} THEN 0 ELSE CHOOSE i \in active : \A j \in active : j <= i

\* load_model; model_id = 0 stands for None.  Returns whether it succeeded
\* and the pair the service holds afterwards.
LoadModel(ms, fs, s, model_id) ==
    LET rec == IF model_id # 0 THEN model_id ELSE NewestActive(ms) IN
    IF rec = 0 THEN [ok |-> FALSE, svc |-> s]
    ELSE IF ~Exists(fs, ms[rec].model_file_path) THEN [ok |-> FALSE, svc |-> s]
    ELSE LET model == JoblibLoad(fs, ms[rec].model_file_path)
             scaler == IF /\ ms[rec].scaler_file_path # <<>>
                          /\ Exists(fs, ms[rec].scaler_file_path)
                       THEN JoblibLoad(fs, ms[rec].scaler_file_path)
                       ELSE s.scaler
         IN [ok |-> TRUE, svc |-> [model |-> model, scaler |-> scaler]]

\* prepare_student_features: NULL stands for the {} it returns when the body
\* raises.  With at least one grade the GPA line divides a Decimal by the
\* float 25.0, which raises TypeError.  gpa in hundredths; the rates are
\* fractions [n, d].
StudentFeatures(st) ==
    LET present == Len(SelectSeq(st.attendance, LAMBDA a : a \in {"present", "late"}))
        positive == Len(SelectSeq(st.behavior, LAMBDA b : b.behavior_type = "positive"))
        negative == Len(SelectSeq(st.behavior, LAMBDA b : b.behavior_type = "negative"))
    IN IF st.grades # <<>> THEN NULL
       ELSE [gpa |-> IF st.gpa = <<>> \/ st.gpa[1] = 0 THEN 250 ELSE st.gpa[1],
             attendance_rate |->
                 IF st.attendance # <<>>
                 THEN [n |-> present, d |-> Len(st.attendance)]
                 ELSE [n |-> 95, d |-> 100],
             assignment_completion_rate |-> [n |-> 8, d |-> 10],
             behavior_score |->
                 IF positive + negative > 0
                 THEN [n |-> positive, d |-> positive + negative]
                 ELSE [n |-> 8, d |-> 10],
             participation_score |-> [n |-> 8, d |-> 10]]

PrepareStudentFeatures(student) == StudentFeatures(Student[student])

\* the risk level of a predicted value, in hundredths, with >= and <=
RiskLevelInclusive(predicted_value, prediction_type) ==
    IF prediction_type = "dropout"
    THEN IF predicted_value >= 70 THEN "critical"
         ELSE IF predicted_value >= 50 THEN "high"
         ELSE IF predicted_value >= 30 THEN "medium"
         ELSE "low"
    ELSE IF predicted_value <= 200 THEN "critical"
         ELSE IF predicted_value <= 250 THEN "high"
         ELSE IF predicted_value <= 300 THEN "medium"
         ELSE "low"

\* the risk level predict_performance gives a predicted value, in hundredths
RiskLevel(predicted_value, prediction_type) ==
    IF prediction_type = "dropout"
    THEN IF predicted_value > 70 THEN "critical"
         ELSE IF predicted_value > 50 THEN "high"
         ELSE IF predicted_value > 30 THEN "medium"
         ELSE "low"
    ELSE IF predicted_value < 200 THEN "critical"
         ELSE IF predicted_value < 250 THEN "high"
         ELSE IF predicted_value < 300 THEN "medium"
         ELSE "low"

\* what the held estimator computes for a feature vector: a classifier
\* (predict_proba) gives the index of the likeliest class and its
\* probability, a regressor gives a value and the confidence is 0.8
Infer(model, scaler, features) ==
    IF model.predict_proba
    THEN [predicted_value |-> model.value, confidence_score |-> model.confidence]
    ELSE [predicted_value |-> model.value, confidence_score |-> 80]

\* predict_performance: the pair the service holds afterwards and the value
\* returned, NULL for None
PredictPerformance(ms, fs, s, student, prediction_type) ==
    LET loaded == IF s.model = NULL
                  THEN LoadModel(ms, fs, s, 0)
                  ELSE [ok |-> TRUE, svc |-> s]
        features == PrepareStudentFeatures(student)
        y == Infer(loaded.svc.model, loaded.svc.scaler, features)
    IN IF ~loaded.ok THEN [svc |-> s, result |-> NULL]
       ELSE IF features = NULL THEN [svc |-> loaded.svc, result |-> NULL]
       ELSE [svc |-> loaded.svc,
             result |-> [predicted_value |-> y.predicted_value,
                         confidence_score |-> y.confidence_score,
                         risk_level |-> RiskLevel(y.predicted_value, prediction_type),
                         input_features |-> features]]

\* prediction['student_id'] set to the user of the student
TagPredictionWithUser(prediction, student) ==
    [k \in DOMAIN prediction \cup {"student_id"} |->
        IF k = "student_id" THEN Student[student].user ELSE prediction[k]]

\* prediction['student_id'] = student.id
TagPrediction(prediction, student) ==
    [k \in DOMAIN prediction \cup {"student_id"} |->
        IF k = "student_id" THEN student ELSE prediction[k]]

\* the loop of batch_predict over the students left, predictions so far
RECURSIVE BatchPredictLoop(_, _, _, _, _, _)
BatchPredictLoop(ms, fs, s, students, prediction_type, predictions) ==
    IF students = <<>> THEN [svc |-> s, predictions |-> predictions]
    ELSE LET r == PredictPerformance(ms, fs, s, Head(students), prediction_type)
         IN BatchPredictLoop(ms, fs, r.svc, Tail(students), prediction_type,
                IF r.result # NULL
                THEN Append(predictions, TagPrediction(r.result, Head(students)))
                ELSE predictions)

\* batch_predict
BatchPredict(ms, fs, s, students, prediction_type) ==
    BatchPredictLoop(ms, fs, s, students, prediction_type, <<>>)

\* a call of ml_service.predict_performance
PredictPerformanceCall(student, prediction_type) ==
    LET r == PredictPerformance(models, files, svc, student, prediction_type) IN
    /\ svc' = r.svc
    /\ lastPred' = [call |-> "predict", students |-> <<student>>,
                    prediction_type |-> prediction_type,
                    model0 |-> svc.model,
                    returned |-> r.result]
    /\ lastTrain' = NULL
    /\ lastAct' = NULL
    /\ UNCHANGED <<models, files>>

Predict ==
    \E student \in Students, prediction_type \in {"grade", "dropout"} :
        PredictPerformanceCall(student, prediction_type)

\* the lists of distinct students of length 1..n
StudentLists(n) ==
    {l \in UNION {[1..k -> Students] : k \in 1..n} :
        \A i, j \in DOMAIN l : i # j => l[i] # l[j]}

\* a call of ml_service.batch_predict
BatchPredictCall(students, prediction_type) ==
    LET r == BatchPredict(models, files, svc, students, prediction_type) IN
    /\ svc' = r.svc
    /\ lastPred' = [call |-> "batch", students |-> students,
                    prediction_type |-> prediction_type,
                    model0 |-> svc.model,
                    returned |-> r.predictions]
    /\ lastTrain' = NULL
    /\ lastAct' = NULL
    /\ UNCHANGED <<models, files>>

Batch ==
    \E students \in StudentLists(MaxBatch), prediction_type \in {"grade", "dropout"} :
        BatchPredictCall(students, prediction_type)

\* the ACTIVE records
ActiveSet(ms) == {i \in DOMAIN ms : ms[i].status = "active"}

\* PerformancePrediction.objects.create in the batch_predict view raises for
\* a value the columns cannot take: predicted_value of a classifier is a
\* numpy integer (np.argmax), which the DecimalField cannot convert, and a
\* gpa feature taken from StudentProfile.gpa is a Decimal, which the
\* input_features JSONField cannot serialise
Storable(model, student) ==
    /\ ~model.predict_proba
    /\ (Student[student].gpa = <<>> \/ Student[student].gpa[1] = 0)

\* the loop of the batch_predict view over the students left: the service
\* pair afterwards and the PerformancePrediction rows created; produced_by
\* is the record whose model file the predicting estimator was loaded from
RECURSIVE BatchPredictViewLoop(_, _, _, _, _, _)
BatchPredictViewLoop(s, students, prediction_type, active_model, successful, failed) ==
    IF students = <<>>
    THEN [svc |-> s, successful_predictions |-> successful, failed_predictions |-> failed]
    ELSE LET student == Head(students)
             r == PredictPerformance(models, files, s, student, prediction_type)
         IN IF r.result # NULL /\ Storable(r.svc.model, student)
            THEN BatchPredictViewLoop(r.svc, Tail(students), prediction_type, active_model,
                     Append(successful,
                            [student |-> student, model |-> active_model,
                             produced_by |-> r.svc.model.of,
                             prediction_type |-> prediction_type,
                             predicted_value |-> r.result.predicted_value,
                             risk_level |-> r.result.risk_level]),
                     failed)
            ELSE BatchPredictViewLoop(r.svc, Tail(students), prediction_type, active_model,
                     successful, Append(failed, student))

\* PerformancePredictionViewSet.batch_predict, called by an administrator.
\* active_model is filter(status=ACTIVE).first(): the model has no ordering
\* and a random UUID key, so it is any of the ACTIVE records; with none the
\* view answers 400.
BatchPredictView(students, prediction_type) ==
    /\ IF ActiveSet(models) = {}
       THEN /\ lastPred' = [call |-> "view", students |-> students,
                            prediction_type |-> prediction_type,
                            model0 |-> svc.model, status |-> 400,
                            successful_predictions |-> <<>>,
                            failed_predictions |-> <<>>]
            /\ UNCHANGED svc
       ELSE \E active_model \in ActiveSet(models) :
               LET r == BatchPredictViewLoop(svc, students, prediction_type,
                                             active_model, <<>>, <<>>)
               IN /\ svc' = r.svc
                  /\ lastPred' = [call |-> "view", students |-> students,
                                  prediction_type |-> prediction_type,
                                  model0 |-> svc.model, status |-> 201,
                                  successful_predictions |-> r.successful_predictions,
                                  failed_predictions |-> r.failed_predictions]
    /\ lastTrain' = NULL
    /\ lastAct' = NULL
    /\ UNCHANGED <<models, files>>

BatchView ==
    \E students \in StudentLists(MaxBatch), prediction_type \in {"grade", "dropout"} :
        BatchPredictView(students, prediction_type)

\* the estimators a training run can fit: a random-forest classifier when
\* the target has at most 10 distinct values, else a gradient-boosting
\* regressor; value is what it predicts, in hundredths
Fits ==
    {[predict_proba |-> TRUE, value |-> 100, confidence |-> 60],
     [predict_proba |-> FALSE, value |-> 250, confidence |-> 0]}

\* train_model (the view and the service method).  fit = NULL: fitting
\* raises and None is returned; else the estimator and its scaler are
\* dumped to two new files and a record is created for them.
TrainModel(fit) ==
    LET k == Len(models) + 1
        model_path == <<"model", k>>
        scaler_path == <<"scaler", k>>
        model_record == [status |-> "active",
                         model_file_path |-> model_path,
                         scaler_file_path |-> scaler_path]
    IN /\ Len(models) < MaxModels
       /\ IF fit = NULL
          THEN /\ UNCHANGED <<models, files>>
               /\ lastTrain' = [returned |-> 0, active0 |-> ActiveSet(models),
                                selected0 |-> NewestActive(models)]
          ELSE /\ files' = files \cup
                     {[path |-> model_path,
                       content |-> [of |-> k, predict_proba |-> fit.predict_proba,
                                    value |-> fit.value, confidence |-> fit.confidence]],
                      [path |-> scaler_path, content |-> [scaler_of |-> k]]}
               /\ models' = Append(models, model_record)
               /\ lastTrain' = [returned |-> k, active0 |-> ActiveSet(models),
                                selected0 |-> NewestActive(models)]
       /\ lastPred' = NULL
       /\ lastAct' = NULL
       /\ UNCHANGED svc

Train == \E fit \in Fits \cup {NULL} : TrainModel(fit)

\* PredictionModelViewSet.create: the serializer takes the status and no
\* file path, so the record has blank paths
PerformCreate(status) ==
    /\ Len(models) < MaxModels
    /\ models' = Append(models, [status |-> status,
                                 model_file_path |-> <<>>,
                                 scaler_file_path |-> <<>>])
    /\ lastPred' = NULL
    /\ lastTrain' = NULL
    /\ lastAct' = NULL
    /\ UNCHANGED <<files, svc>>

CreateModel == \E status \in {"training", "active"} : PerformCreate(status)

\* activate without the update that deprecates the ACTIVE records
ActivateModelKeepingOthers(pk) ==
    LET saved == [models EXCEPT ![pk].status = "active"]
    IN /\ models' = saved
       /\ svc' = LoadModel(saved, files, svc, pk).svc
       /\ lastPred' = NULL
       /\ lastTrain' = NULL
       /\ lastAct' = [pk |-> pk, active0 |-> ActiveSet(models), svc0 |-> svc]
       /\ UNCHANGED files

\* the records left as they are
DemotedNone(ms) == ms

\* filter(status=ACTIVE).update(status=DEPRECATED)
Demoted(ms) ==
    [i \in DOMAIN ms |->
        IF ms[i].status = "active" THEN [ms[i] EXCEPT !.status = "deprecated"] ELSE ms[i]]

\* PredictionModelViewSet.activate
ActivateModel(pk) ==
    LET demoted == Demoted(models)
        saved == [demoted EXCEPT ![pk].status = "active"]
    IN /\ models' = saved
       /\ svc' = LoadModel(saved, files, svc, pk).svc
       /\ lastPred' = NULL
       /\ lastTrain' = NULL
       /\ lastAct' = [pk |-> pk, active0 |-> ActiveSet(models), svc0 |-> svc]
       /\ UNCHANGED files

Activate == \E pk \in DOMAIN models : ActivateModel(pk)

(***************************************************************************)
(* activate run by a request worker while other requests are served.  The  *)
(* view runs outside a transaction (no ATOMIC_REQUESTS), so its queries    *)
(* commit one by one: get_object, the update that demotes, model.save(),   *)
(* then load_model on the service, which the workers share.                *)
(***************************************************************************)

\* self.get_object()
BeginActivate(w, pk) ==
    /\ swap[w] = NULL
    /\ swap' = [swap EXCEPT ![w] = [pk |-> pk, pc |-> "demote", model |-> models[pk],
                                    active0 |-> ActiveSet(models)]]
    /\ lastPred' = NULL
    /\ lastTrain' = NULL
    /\ lastAct' = NULL
    /\ UNCHANGED <<models, files, svc, evals>>

\* PredictionModel.objects.filter(status=ACTIVE).update(status=DEPRECATED)
DemoteActive(w) ==
    /\ swap[w] # NULL
    /\ swap[w].pc = "demote"
    /\ models' = Demoted(models)
    /\ swap' = [swap EXCEPT ![w].pc = "save"]
    /\ lastPred' = NULL
    /\ lastTrain' = NULL
    /\ lastAct' = NULL
    /\ UNCHANGED <<files, svc, evals>>

\* model.status = ACTIVE; model.save(): the row is written from the
\* instance get_object read
SaveActive(w) ==
    /\ swap[w] # NULL
    /\ swap[w].pc = "save"
    /\ models' = [models EXCEPT ![swap[w].pk] = [swap[w].model EXCEPT !.status = "active"]]
    /\ swap' = [swap EXCEPT ![w].pc = "load"]
    /\ lastPred' = NULL
    /\ lastTrain' = NULL
    /\ lastAct' = NULL
    /\ UNCHANGED <<files, svc, evals>>

\* ml_service.load_model(str(model.id))
ReloadService(w) ==
    /\ swap[w] # NULL
    /\ swap[w].pc = "load"
    /\ svc' = LoadModel(models, files, svc, swap[w].pk).svc
    /\ swap' = [swap EXCEPT ![w] = NULL]
    /\ lastPred' = NULL
    /\ lastTrain' = NULL
    /\ lastAct' = NULL
    /\ UNCHANGED <<models, files, evals>>

\* PredictionModelAdmin, the change form of a model record: the
\* administrator blanks scaler_file_path (the column is blank=True)
AdminChange(pk) ==
    /\ models[pk].scaler_file_path # <<>>
    /\ models' = [models EXCEPT ![pk].scaler_file_path = <<>>]
    /\ lastPred' = NULL
    /\ lastTrain' = NULL
    /\ lastAct' = NULL
    /\ UNCHANGED <<files, svc>>

AdminEdit == \E pk \in DOMAIN models : AdminChange(pk)

(***************************************************************************)
(* The recommendation engine (predictions/recommendation_engine.py).  A    *)
(* profile is a StudentProfile with the rows analyze_student_needs reads:  *)
(* gpa in hundredths, <<>> when null; attendance: Attendance.status        *)
(* values; behavior: BehaviorRecord rows; grades: Grade rows with their    *)
(* percentage.                                                             *)
(***************************************************************************)
MaxGpa == 400

\* n rows, each equal to x
Rows(n, x) == [i \in 1..n |-> x]

\* analyze_student_needs at time t: the list of needs, in the order appended
AnalyzeStudentNeeds(p, t) ==
    LET hasGpa == p.gpa # <<>> /\ p.gpa[1] # 0
        total == Len(p.attendance)
        present_count == Len(SelectSeq(p.attendance,
                                 LAMBDA a : a \in {"present", "late"}))
        negative_behaviors ==
            Len(SelectSeq(p.behavior,
                   LAMBDA b : /\ b.incident_date >= t - 30 * Day
                              /\ b.behavior_type = "negative"))
        recent_grades == SelectSeq(p.grades, LAMBDA g : g.graded_at >= t - 30 * Day)
        scores == [i \in DOMAIN recent_grades |-> recent_grades[i].percentage]
        risk_factors ==
              (IF hasGpa /\ p.gpa[1] < 200 THEN 2 ELSE 0)
            + (IF total > 0 /\ present_count * 10 < 8 * total THEN 2 ELSE 0)
            + (IF negative_behaviors > 5 THEN 1 ELSE 0)
            + (IF p.family_income_bracket = "low" THEN 1 ELSE 0)
            + (IF p.has_learning_disability THEN 1 ELSE 0)
        when(b, needs) == IF b THEN needs ELSE <<>>
    IN    when(hasGpa /\ p.gpa[1] < 250, <<"low_gpa">>)
       \o when(total > 0 /\ present_count * 100 < 85 * total, <<"poor_attendance">>)
       \o when(negative_behaviors > 3, <<"behavioral_concerns">>)
       \o when(recent_grades # <<>> /\ SumSeq(scores) < 70 * Len(scores),
               <<"low_engagement", "subject_specific_help">>)
       \o when(risk_factors >= 4, <<"dropout_risk">>)

\* the students analyze_student_needs is taken on: every stored GPA and
\* null, attendance of 0, 75, 80 and 85 per cent, 0, 4 and 6 negative
\* behaviour records of yesterday, no grade or one of 69 per cent
MakeProfile(gpa, att, neg, grades, income, disability) ==
    [gpa |-> gpa,
     attendance |-> Rows(att[1], "present") \o Rows(att[2] - att[1], "absent"),
     behavior |-> Rows(neg, [behavior_type |-> "negative", incident_date |-> 0 - Day]),
     grades |-> grades,
     family_income_bracket |-> income,
     has_learning_disability |-> disability]

Profiles ==
    {MakeProfile(gpa, att, neg, grades, income, disability) :
        gpa \in {<<>>} \cup {<<g>> : g \in 0..MaxGpa},
        att \in {<<0, 0>>, <<15, 20>>, <<16, 20>>, <<17, 20>>},
        neg \in {0, 4, 6},
        grades \in {<<>>, <<[percentage |-> 69, graded_at |-> 0 - Day]>>},
        income \in {"low", "middle"},
        disability \in BOOLEAN}

\* recommendation_templates: the priority of the template of each need
NeedSeq == <<"low_gpa", "poor_attendance", "behavioral_concerns",
             "low_engagement", "dropout_risk", "subject_specific_help">>

TemplatePriority ==
    [need \in Range(NeedSeq) |->
        CASE need = "low_gpa" -> "high"
          [] need = "poor_attendance" -> "high"
          [] need = "dropout_risk" -> "urgent"
          [] OTHER -> "medium"]

\* priority_order, and priority_order.index
PriorityOrder == <<"low", "medium", "high", "urgent">>

PriorityIndex(priority) == CHOOSE i \in DOMAIN PriorityOrder : PriorityOrder[i] = priority

\* _calculate_due_date, with now = t
CalculateDueDate(priority, t) ==
    CASE priority = "urgent" -> t + 3 * Day
      [] priority = "high" -> t + 7 * Day
      [] priority = "medium" -> t + 14 * Day
      [] OTHER -> t + 30 * Day

\* the needs added for the prediction, whatever its type
PredictionNeedsAnyType(prediction) ==
    CASE prediction.risk_level = "critical" -> <<"low_gpa">>
      [] prediction.risk_level = "high" -> <<"low_gpa", "subject_specific_help">>
      [] OTHER -> <<>>

\* the needs generate_recommendations adds for the prediction
PredictionNeeds(prediction) ==
    CASE prediction.risk_level = "critical" ->
           IF prediction.prediction_type = "dropout"
           THEN <<"dropout_risk">> ELSE <<"low_gpa">>
      [] prediction.risk_level = "high" -> <<"low_gpa", "subject_specific_help">>
      [] OTHER -> <<>>

\* the list of needs as it is, duplicates kept
KeepDuplicates(needs) == needs

\* list(set(identified_needs)); the order of the result is not fixed by the
\* language, the needs are taken here in the order of NeedSeq
RemoveDuplicates(needs) == SelectSeq(NeedSeq, LAMBDA need : need \in Range(needs))

\* the Recommendation rows one generate_recommendations call creates at time
\* t; lag is how far the clock has moved on when the row is inserted and
\* created_at (auto_now_add) is set.  title stands for the template.
NewRecommendations(prediction, priority_threshold, t, lag) ==
    LET identified_needs ==
            RemoveDuplicates(AnalyzeStudentNeeds(prediction.student, t)
                             \o PredictionNeeds(prediction))
        kept == SelectSeq(identified_needs,
                    LAMBDA need : PriorityIndex(TemplatePriority[need])
                                      >= PriorityIndex(priority_threshold))
    IN [i \in DOMAIN kept |->
           [prediction |-> prediction,
            title |-> kept[i],
            priority |-> TemplatePriority[kept[i]],
            status |-> "pending",
            due_date |-> CalculateDueDate(TemplatePriority[kept[i]], t),
            created_at |-> t + lag]]

\* generate_recommendations
GenerateRecommendations(prediction, priority_threshold, lag) ==
    LET recommendations == NewRecommendations(prediction, priority_threshold, now, lag)
        calls == IF lastGen = NULL THEN 0 ELSE lastGen.calls
    IN /\ calls < MaxCalls
       /\ recs' = recs \o recommendations
       /\ lastGen' = [prediction |-> prediction,
                      priority_threshold |-> priority_threshold,
                      calls |-> calls + 1, at |-> now, recs0 |-> Len(recs),
                      returned |-> recommendations]
       /\ UNCHANGED <<now, ticks>>

\* the predictions recommendations are generated from
GenPredictions ==
    [student : {MakeProfile(<<>>, <<0, 0>>, 0, <<>>, "middle", FALSE),
                MakeProfile(<<150>>, <<0, 0>>, 0,
                            <<[percentage |-> 69, graded_at |-> 0 - Day]>>,
                            "middle", FALSE)},
     risk_level : {"low", "medium", "high", "critical"},
     prediction_type : {"grade", "dropout"}]

Generate ==
    \E prediction \in GenPredictions, priority_threshold \in Range(PriorityOrder),
       lag \in {0, 1} :
        GenerateRecommendations(prediction, priority_threshold, lag)

(***************************************************************************)
(* evaluate_notification_rules run by several request workers at once.     *)
(* Nothing in the loop takes a lock or opens a transaction, so the         *)
(* database queries of two calls interleave: the steps are the cooldown    *)
(* query with the reads that follow it, and the inserts.                   *)
(***************************************************************************)

\* the rest of the loop after the pair at the head is done
NextPair(e) ==
    IF Len(e.pairs) = 1 THEN NULL
    ELSE [pairs |-> Tail(e.pairs), pc |-> "check", trigger_value |-> NULL]

\* a worker enters evaluate_notification_rules for one student
BeginEvaluation(w) ==
    /\ evals[w] = NULL
    /\ \E student \in {"s1"}, rulesArg \in {<<>>, << <<"r3">> >>} :
         LET rules == IF rulesArg = <<>> THEN ActiveRules ELSE rulesArg[1]
         IN evals' = [evals EXCEPT ![w] =
                         [pairs |-> PairSeq(rules, <<student>>), pc |-> "check",
                          trigger_value |-> NULL]]
    /\ UNCHANGED <<now, ticks, logs, notifs, lastEval, lastSend, swap>>

\* _is_rule_in_cooldown, _get_trigger_value and _evaluate_condition for the
\* pair at the head: the pair is skipped or is about to fire
CheckPair(w) ==
    /\ evals[w] # NULL
    /\ evals[w].pc = "check"
    /\ LET e == evals[w]
           rule == Head(e.pairs)[1]
           student == Head(e.pairs)[2]
           r == NotificationRule[rule]
           trigger_value == GetTriggerValue(rule, student, now)
           c == EvaluateCondition(r.condition, trigger_value, r.threshold_value)
           fires == /\ ~IsRuleInCooldown(logs, now, rule, student)
                    /\ trigger_value # NULL
                    /\ ~c.raised
                    /\ c.met
       IN evals' = [evals EXCEPT ![w] =
                       IF fires THEN [e EXCEPT !.pc = "fire",
                                               !.trigger_value = trigger_value]
                       ELSE NextPair(e)]
    /\ UNCHANGED <<now, ticks, logs, notifs, lastEval, lastSend, swap>>

\* _create_rule_notifications and NotificationLog.objects.create for the pair
\* at the head
FirePair(w) ==
    /\ evals[w] # NULL
    /\ evals[w].pc = "fire"
    /\ LET e == evals[w]
           rule == Head(e.pairs)[1]
           student == Head(e.pairs)[2]
           made == CreateRuleNotifications(rule, student, e.trigger_value, now)
       IN /\ Len(logs) < MaxLogs
          /\ Len(notifs) + Len(made) <= MaxNotifs
          /\ notifs' = notifs \o made
          /\ logs' = Append(logs, [rule |-> rule, student |-> student,
                                   triggered_at |-> now,
                                   trigger_value |-> e.trigger_value,
                                   notifications_created |-> Len(made)])
          /\ evals' = [evals EXCEPT ![w] = NextPair(e)]
    /\ UNCHANGED <<now, ticks, lastEval, lastSend, swap>>

InitNotif ==
    /\ now = 0
    /\ ticks = 0
    /\ logs = <<>>
    /\ notifs = <<>>
    /\ lastEval = NULL
    /\ lastSend = NULL

InitML ==
    /\ models = <<>>
    /\ files = {}
    /\ svc = [model |-> NULL, scaler |-> NULL]
    /\ lastPred = NULL
    /\ lastTrain = NULL
    /\ lastAct = NULL

InitRec ==
    /\ recs = <<>>
    /\ lastGen = NULL

InitRisk ==
    /\ riskIn = NULL
    /\ riskOut = NULL
    /\ fnIn = NULL
    /\ fnOut = NULL

\* the request workers of the server, none of them inside a request
Workers == {"w1", "w2"}

InitConc ==
    /\ evals = [w \in Workers |-> NULL]
    /\ swap = [w \in Workers |-> NULL]

Init == InitNotif /\ InitML /\ InitRec /\ InitRisk /\ InitConc

Next ==
    \/ TriggerNotificationRules /\ UNCHANGED mlVars /\ UNCHANGED recVars /\ UNCHANGED concVars /\ UNCHANGED riskVars
    \/ Tick /\ UNCHANGED mlVars /\ UNCHANGED recVars /\ UNCHANGED concVars /\ UNCHANGED riskVars

Spec == Init /\ [][Next]_vars

\* creation, delivery and reading of notifications
NextDeliver ==
    \/ Create /\ UNCHANGED mlVars /\ UNCHANGED recVars /\ UNCHANGED concVars /\ UNCHANGED riskVars
    \/ SendPending /\ UNCHANGED mlVars /\ UNCHANGED recVars /\ UNCHANGED concVars /\ UNCHANGED riskVars
    \/ MarkRead /\ UNCHANGED mlVars /\ UNCHANGED recVars /\ UNCHANGED concVars /\ UNCHANGED riskVars
    \/ Tick /\ UNCHANGED mlVars /\ UNCHANGED recVars /\ UNCHANGED concVars /\ UNCHANGED riskVars

SpecDeliver == Init /\ [][NextDeliver]_vars

\* training, activation and prediction
NextML ==
    \/ Train /\ UNCHANGED notifVars /\ UNCHANGED recVars /\ UNCHANGED concVars /\ UNCHANGED riskVars
    \/ CreateModel /\ UNCHANGED notifVars /\ UNCHANGED recVars /\ UNCHANGED concVars /\ UNCHANGED riskVars
    \/ Activate /\ UNCHANGED notifVars /\ UNCHANGED recVars /\ UNCHANGED concVars /\ UNCHANGED riskVars
    \/ Predict /\ UNCHANGED notifVars /\ UNCHANGED recVars /\ UNCHANGED concVars /\ UNCHANGED riskVars
    \/ Batch /\ UNCHANGED notifVars /\ UNCHANGED recVars /\ UNCHANGED concVars /\ UNCHANGED riskVars

SpecML == Init /\ [][NextML]_vars

\* training, activation and prediction, with records edited in the admin site
NextMLAdmin ==
    \/ NextML
    \/ AdminEdit /\ UNCHANGED notifVars /\ UNCHANGED recVars /\ UNCHANGED concVars /\ UNCHANGED riskVars

SpecMLAdmin == Init /\ [][NextMLAdmin]_vars

\* risk-level bucketing on its own: every pair of a predicted value of
\* 0.00 .. MaxValue/100 and a prediction type
Bucket ==
    /\ riskOut = NULL
    /\ riskOut' = [risk_level |-> RiskLevel(riskIn.predicted_value, riskIn.prediction_type)]
    /\ UNCHANGED <<riskIn, fnIn, fnOut>>

InitBucket ==
    /\ InitNotif
    /\ InitML
    /\ InitRec
    /\ InitConc
    /\ riskIn \in [predicted_value : 0..MaxValue, prediction_type : PredictionTypes]
    /\ riskOut = NULL
    /\ fnIn = NULL
    /\ fnOut = NULL

NextRisk == Bucket /\ UNCHANGED notifVars /\ UNCHANGED mlVars /\ UNCHANGED recVars /\ UNCHANGED concVars

SpecRisk == InitBucket /\ [][NextRisk]_vars

\* the delivery passes on their own: notifications are created, fall due and
\* are sent
NextPass ==
    \/ Create /\ UNCHANGED mlVars /\ UNCHANGED recVars /\ UNCHANGED concVars /\ UNCHANGED riskVars
    \/ SendPending /\ UNCHANGED mlVars /\ UNCHANGED recVars /\ UNCHANGED concVars /\ UNCHANGED riskVars
    \/ Tick /\ UNCHANGED mlVars /\ UNCHANGED recVars /\ UNCHANGED concVars /\ UNCHANGED riskVars

SpecPass == Init /\ [][NextPass]_vars

\* the attendance rule r3 is evaluated for the student s1, and rules are
\* tested
NextTest ==
    \/ EvaluateNotificationRules(<< <<"s1">> >>, << <<"r3">> >>)
          /\ UNCHANGED mlVars /\ UNCHANGED recVars /\ UNCHANGED concVars
          /\ UNCHANGED riskVars
    \/ TestRule /\ UNCHANGED mlVars /\ UNCHANGED recVars /\ UNCHANGED concVars
    \/ Tick /\ UNCHANGED mlVars /\ UNCHANGED recVars /\ UNCHANGED concVars
            /\ UNCHANGED riskVars

SpecTest == Init /\ [][NextTest]_vars

\* rule evaluation by several workers at once
NextConcurrent ==
    \/ \E w \in Workers : BeginEvaluation(w)
          /\ UNCHANGED mlVars /\ UNCHANGED recVars /\ UNCHANGED riskVars
    \/ \E w \in Workers : CheckPair(w)
          /\ UNCHANGED mlVars /\ UNCHANGED recVars /\ UNCHANGED riskVars
    \/ \E w \in Workers : FirePair(w)
          /\ UNCHANGED mlVars /\ UNCHANGED recVars /\ UNCHANGED riskVars
    \/ Tick /\ UNCHANGED mlVars /\ UNCHANGED recVars /\ UNCHANGED riskVars
            /\ UNCHANGED concVars

SpecConcurrent == Init /\ [][NextConcurrent]_vars

\* the batch_predict endpoint, with training, records created through the
\* API and activation
NextView ==
    \/ CreateModel /\ UNCHANGED notifVars /\ UNCHANGED recVars /\ UNCHANGED concVars /\ UNCHANGED riskVars
    \/ Train /\ UNCHANGED notifVars /\ UNCHANGED recVars /\ UNCHANGED concVars /\ UNCHANGED riskVars
    \/ Activate /\ UNCHANGED notifVars /\ UNCHANGED recVars /\ UNCHANGED concVars /\ UNCHANGED riskVars
    \/ BatchView /\ UNCHANGED notifVars /\ UNCHANGED recVars /\ UNCHANGED concVars /\ UNCHANGED riskVars

SpecView == Init /\ [][NextView]_vars

\* activate in steps, with training and single predictions in between
NextSwap ==
    \/ Train /\ UNCHANGED notifVars /\ UNCHANGED recVars /\ UNCHANGED concVars /\ UNCHANGED riskVars
    \/ \E student \in {"s1", "s2"} : PredictPerformanceCall(student, "grade")
          /\ UNCHANGED notifVars /\ UNCHANGED recVars /\ UNCHANGED concVars
          /\ UNCHANGED riskVars
    \/ \E w \in Workers, pk \in DOMAIN models : BeginActivate(w, pk)
          /\ UNCHANGED notifVars /\ UNCHANGED recVars /\ UNCHANGED riskVars
    \/ \E w \in Workers : DemoteActive(w)
          /\ UNCHANGED notifVars /\ UNCHANGED recVars /\ UNCHANGED riskVars
    \/ \E w \in Workers : SaveActive(w)
          /\ UNCHANGED notifVars /\ UNCHANGED recVars /\ UNCHANGED riskVars
    \/ \E w \in Workers : ReloadService(w)
          /\ UNCHANGED notifVars /\ UNCHANGED recVars /\ UNCHANGED riskVars

SpecSwap == Init /\ [][NextSwap]_vars

\* generation of recommendations
NextRec ==
    Generate /\ UNCHANGED <<logs, notifs, lastEval, lastSend>>
             /\ UNCHANGED mlVars /\ UNCHANGED riskVars /\ UNCHANGED concVars

SpecRec == Init /\ [][NextRec]_vars

\* analyze_student_needs on its own, on every profile of Profiles
InitNeeds ==
    /\ InitNotif
    /\ InitML
    /\ InitRec
    /\ InitConc
    /\ riskIn = NULL
    /\ riskOut = NULL
    /\ fnIn \in [fn : {"analyze_student_needs"}, profile : Profiles]
    /\ fnOut = NULL

Analyze ==
    /\ fnOut = NULL
    /\ fnOut' = [needs |-> AnalyzeStudentNeeds(fnIn.profile, now)]
    /\ UNCHANGED <<fnIn, riskIn, riskOut>>

NextNeeds == Analyze /\ UNCHANGED notifVars /\ UNCHANGED mlVars /\ UNCHANGED recVars /\ UNCHANGED concVars

SpecNeeds == InitNeeds /\ [][NextNeeds]_vars

\* _evaluate_condition on its own: every operator, on trigger values of
\* 5.0000 +- MaxOffset/10000, float and Decimal, against the thresholds
\* 4.999, 5.000 and 5.001 of a rule
ConditionNames == {"lt", "lte", "gt", "gte", "eq", "ne", "between"}

InitCondition ==
    /\ InitNotif
    /\ InitML
    /\ InitRec
    /\ InitConc
    /\ riskIn = NULL
    /\ riskOut = NULL
    /\ fnIn \in [fn : {"_evaluate_condition"},
                 condition : ConditionNames,
                 value : {[n |-> 50000 + k, d |-> 10000, t |-> ty] :
                             k \in (0 - MaxOffset)..MaxOffset, ty \in {"float", "Decimal"}},
                 threshold : {4999, 5000, 5001}]
    /\ fnOut = NULL

Evaluate ==
    /\ fnOut = NULL
    /\ fnOut' = EvaluateCondition(fnIn.condition, fnIn.value, fnIn.threshold)
    /\ UNCHANGED <<fnIn, riskIn, riskOut>>

NextCondition == Evaluate /\ UNCHANGED notifVars /\ UNCHANGED mlVars /\ UNCHANGED recVars /\ UNCHANGED concVars

SpecCondition == InitCondition /\ [][NextCondition]_vars

\* _get_trigger_value on its own, for the grade_threshold and the
\* prediction_risk rules: students with no stored GPA or one of 0.00 .. 4.00,
\* with no grade, a few, or more than ten, and with up to MaxPreds
\* predictions of every risk level, active or not
RECURSIVE SeqsUpTo(_, _)
SeqsUpTo(S, n) ==
    IF n = 0 THEN {<<>>}
    ELSE LET shorter == SeqsUpTo(S, n - 1)
         IN shorter \cup {Append(q, x) : q \in shorter, x \in S}

GradeLists == {<<>>, <<0>>, <<50, 60>>, Rows(10, 80) \o <<0>>, Rows(10, 0) \o <<90, 90>>}

TriggerStudents ==
    [user : {"u1"},
     gpa : {<<>>, <<0>>, <<1>>, <<180>>, <<MaxGpa>>},
     grades : GradeLists,
     attendance : {<<>>}, behavior : {<<>>}, recs : {<<>>},
     predictions : SeqsUpTo([risk_level : {"low", "medium", "high", "critical"},
                             is_active : BOOLEAN], MaxPreds)]

InitTrigger ==
    /\ InitNotif
    /\ InitML
    /\ InitRec
    /\ InitConc
    /\ riskIn = NULL
    /\ riskOut = NULL
    /\ fnIn \in [fn : {"_get_trigger_value"},
                 trigger_type : {"grade_threshold", "prediction_risk"},
                 student : TriggerStudents]
    /\ fnOut = NULL

Trigger ==
    /\ fnOut = NULL
    /\ fnOut' = [value |-> TriggerValue(fnIn.trigger_type, fnIn.student, now)]
    /\ UNCHANGED <<fnIn, riskIn, riskOut>>

NextTrigger == Trigger /\ UNCHANGED notifVars /\ UNCHANGED mlVars /\ UNCHANGED recVars /\ UNCHANGED concVars

SpecTrigger == InitTrigger /\ [][NextTrigger]_vars

\* prepare_student_features on its own: students with or without a grade and
\* with up to MaxAttendance attendance records of every status
AttendanceStatus == {"present", "absent", "late", "excused"}

FeatureStudents ==
    [user : {"u1"},
     gpa : {<<>>, <<0>>, <<180>>},
     grades : {<<>>, <<50>>},
     attendance : SeqsUpTo(AttendanceStatus, MaxAttendance),
     behavior : {<<>>, <<[behavior_type |-> "negative", incident_date |-> 0 - Day]>>},
     recs : {<<>>},
     predictions : {<<>>}]

InitFeatures ==
    /\ InitNotif
    /\ InitML
    /\ InitRec
    /\ InitConc
    /\ riskIn = NULL
    /\ riskOut = NULL
    /\ fnIn \in [fn : {"prepare_student_features"}, student : FeatureStudents]
    /\ fnOut = NULL

Prepare ==
    /\ fnOut = NULL
    /\ fnOut' = [features |-> StudentFeatures(fnIn.student)]
    /\ UNCHANGED <<fnIn, riskIn, riskOut>>

NextFeatures == Prepare /\ UNCHANGED notifVars /\ UNCHANGED mlVars /\ UNCHANGED recVars /\ UNCHANGED concVars

SpecFeatures == InitFeatures /\ [][NextFeatures]_vars

(***************************************************************************)
(* Properties of rule evaluation.  They read the last call from lastEval:  *)
(* the rows with index above logs0 / notifs0 are the rows that call added. *)
(***************************************************************************)
Evaluated == lastEval # NULL

\* a log row for the pair, written before the last call, whose triggered_at
\* lies within the rule's cooldown_hours of the time of the call
RecentRow(rule, student) ==
    \E j \in 1..lastEval.logs0 :
        /\ logs[j].rule = rule
        /\ logs[j].student = student
        /\ lastEval.at - logs[j].triggered_at
              <= NotificationRule[rule].cooldown_hours * Hour

\* the age of the newest row the pair had before the last call; -1 if none
NewestRowAge(rule, student) ==
    LET ages == {lastEval.at - logs[j].triggered_at :
                    j \in {k \in 1..lastEval.logs0 :
                             logs[k].rule = rule /\ logs[k].student = student}}
    IN IF ages = {} THEN -1 ELSE CHOOSE a \in ages : \A b \in ages : a <= b

NewRows(rule, student) ==
    SelectSeq(SubSeq(logs, lastEval.logs0 + 1, Len(logs)),
              LAMBDA row : row.rule = rule /\ row.student = student)

NewNotifs(rule, student) ==
    SelectSeq(SubSeq(notifs, lastEval.notifs0 + 1, Len(notifs)),
              LAMBDA n : n.rule = rule /\ n.student = student)

\* C1: for a rule with cooldown_hours > 0, a pair that has a log row within
\* cooldown_hours of now is skipped by evaluate_notification_rules (no new
\* row, no notification), and a pair whose newest row is older is evaluated.
C1_CooldownSkipsPair ==
    Evaluated =>
        \A i \in DOMAIN lastEval.trace :
            LET e == lastEval.trace[i] IN
            NotificationRule[e.rule].cooldown_hours > 0 =>
                IF RecentRow(e.rule, e.student)
                THEN /\ e.outcome = "cooldown"
                     /\ NewRows(e.rule, e.student) = <<>>
                     /\ NewNotifs(e.rule, e.student) = <<>>
                ELSE e.outcome # "cooldown"

\* one call in which a pair of a 24-hour rule with a 1-hour-old row was
\* skipped and a pair whose newest row was 25 hours old fired again
C1_Witness ==
    /\ Evaluated
    /\ \E i, k \in DOMAIN lastEval.trace :
          LET e == lastEval.trace[i]
              f == lastEval.trace[k]
          IN /\ NotificationRule[e.rule].cooldown_hours = 24
             /\ NewestRowAge(e.rule, e.student) = Hour
             /\ e.outcome = "cooldown"
             /\ NotificationRule[f.rule].cooldown_hours = 24
             /\ NewestRowAge(f.rule, f.student) = 25 * Hour
             /\ f.outcome = "fired"
             /\ Len(NewRows(f.rule, f.student)) = 1

\* the comparison the rule names, on the numbers
ConditionHolds(condition, value, threshold) ==
    LET lhs == value.n * 1000
        rhs == threshold * value.d
    IN CASE condition = "lt" -> lhs < rhs
         [] condition = "lte" -> lhs <= rhs
         [] condition = "gt" -> lhs > rhs
         [] condition = "gte" -> lhs >= rhs
         [] condition = "eq" -> Abs(lhs - rhs) < value.d
         [] condition = "ne" -> Abs(lhs - rhs) >= value.d
         [] OTHER -> FALSE

\* C2: a pair gets exactly one new log row if and only if it is not in
\* cooldown, its trigger value is not null and the rule's condition holds
\* against the threshold; the row records the trigger value and the number
\* of notifications created for the pair.  Otherwise it gets no row.
C2_LogRowIffConditionHolds ==
    Evaluated =>
        \A i \in DOMAIN lastEval.trace :
            LET e == lastEval.trace[i]
                r == NotificationRule[e.rule]
                tv == GetTriggerValue(e.rule, e.student, lastEval.at)
                rows == NewRows(e.rule, e.student)
                due == /\ ~(r.cooldown_hours > 0 /\ RecentRow(e.rule, e.student))
                       /\ tv # NULL
                       /\ ConditionHolds(r.condition, tv, r.threshold_value)
            IN IF due
               THEN /\ Len(rows) = 1
                    /\ rows[1].trigger_value = tv
                    /\ rows[1].notifications_created
                          = Len(NewNotifs(e.rule, e.student))
               ELSE rows = <<>>

\* C3: when a rule fires for a student every user of the deduplicated
\* target set gets exactly one notification and nobody else gets one, and
\* the count logged is the size of that set.
C3_OneNotificationPerTargetUser ==
    Evaluated =>
        \A i \in DOMAIN lastEval.trace :
            LET e == lastEval.trace[i]
                targets == GetTargetUsers(NotificationRule[e.rule].target_roles, e.student)
                made == NewNotifs(e.rule, e.student)
            IN e.outcome = "fired" =>
                /\ \A u \in Users :
                      Len(SelectSeq(made, LAMBDA n : n.recipient = u))
                          = IF u \in targets THEN 1 ELSE 0
                /\ e.notifications_created = Cardinality(targets)
                /\ \A j \in DOMAIN NewRows(e.rule, e.student) :
                      NewRows(e.rule, e.student)[j].notifications_created
                          = Cardinality(targets)

\* C4: one pair that raises does not abort evaluate_notification_rules:
\* every pair of rules x students is processed exactly once, in order, and
\* the stats dictionary is returned.
C4_BatchSurvivesBadPair ==
    Evaluated =>
        /\ [i \in DOMAIN lastEval.trace |->
               <<lastEval.trace[i].rule, lastEval.trace[i].student>>]
              = PairSeq(lastEval.rules, lastEval.students)
        /\ DOMAIN lastEval.returned
              = {"rules_evaluated", "students_evaluated", "notifications_created"}
        /\ lastEval.returned.rules_evaluated = Len(lastEval.rules)
        /\ lastEval.returned.students_evaluated = Len(lastEval.students)

\* a call in which one pair raised and a later pair fired
C4_Witness ==
    /\ Evaluated
    /\ \E i, k \in DOMAIN lastEval.trace :
          /\ i < k
          /\ lastEval.trace[i].outcome = "raised"
          /\ lastEval.trace[k].outcome = "fired"

(***************************************************************************)
(* Properties of delivery.  history is the sequence of values the status   *)
(* column of a notification has held, oldest first.                        *)
(***************************************************************************)

\* C5: a notification's status follows pending -> sent -> delivered -> read:
\* it is never marked delivered before it has been marked sent, and it
\* never moves from delivered back to sent.
C5_LifecycleOrder ==
    \A i \in DOMAIN notifs :
        LET h == notifs[i].history IN
        /\ \A k \in DOMAIN h :
              h[k] = "delivered" => \E j \in 1..(k - 1) : h[j] = "sent"
        /\ \A k \in 1..(Len(h) - 1) :
              ~(h[k] = "delivered" /\ h[k + 1] = "sent")

\* C6: a failed notification is retried: every notification that is in
\* status failed after a send_pending_notifications call was among the rows
\* that call attempted to deliver, so a row that failed in an earlier call
\* has been attempted again by every later call.
C6_FailedIsRetried ==
    lastSend # NULL =>
        \A i \in DOMAIN notifs :
            notifs[i].status = "failed" => i \in lastSend.attempted

(***************************************************************************)
(* Properties of the prediction service.  lastPred describes the last      *)
(* predict_performance or batch_predict call when nothing has touched the  *)
(* model records since: model0 is the model the service held when the call *)
(* began.                                                                  *)
(***************************************************************************)

\* C7: the risk level is a function of (predicted_value, prediction_type):
\* for dropout, critical above 0.7, high above 0.5, medium above 0.3, else
\* low; for any other type, critical below 2.0, high below 2.5, medium
\* below 3.0, else low; a boundary value is in the less severe bucket.
C7_RiskLevelBuckets ==
    riskOut # NULL =>
        LET v == riskIn.predicted_value
            level == riskOut.risk_level
        IN IF riskIn.prediction_type = "dropout"
           THEN /\ (level = "critical") = (v > 70)
                /\ (level = "high") = (50 < v /\ v <= 70)
                /\ (level = "medium") = (30 < v /\ v <= 50)
                /\ (level = "low") = (v <= 30)
           ELSE /\ (level = "critical") = (v < 200)
                /\ (level = "high") = (200 <= v /\ v < 250)
                /\ (level = "medium") = (250 <= v /\ v < 300)
                /\ (level = "low") = (300 <= v)

\* the boundary 0.7 of the dropout type has been put in the bucket high
C7_Witness ==
    /\ riskOut # NULL
    /\ riskIn.prediction_type = "dropout"
    /\ riskIn.predicted_value = 70
    /\ riskOut.risk_level = "high"

\* there is an ACTIVE record and the model file of the newest one exists
ActiveModelLoadable ==
    \E i \in DOMAIN models :
        /\ models[i].status = "active"
        /\ \A j \in DOMAIN models : models[j].status = "active" => j <= i
        /\ \E f \in files : f.path = models[i].model_file_path

Predicted == lastPred # NULL /\ lastPred.call = "predict"

ResultFields == {"predicted_value", "confidence_score", "risk_level", "input_features"}

\* C8: predict_performance returns null when there is no ACTIVE record with
\* an existing model file or when feature extraction fails, and otherwise
\* returns a result with the four fields.
C8_NullIffNoActiveModelOrNoFeatures ==
    Predicted =>
        IF \/ ~ActiveModelLoadable
           \/ PrepareStudentFeatures(lastPred.students[1]) = NULL
        THEN lastPred.returned = NULL
        ELSE /\ lastPred.returned # NULL
             /\ DOMAIN lastPred.returned = ResultFields

\* C8, amended: predict_performance returns null when the service holds no
\* model and load_model() cannot load one (no ACTIVE record, or the model
\* file of the newest ACTIVE record is missing), or when feature extraction
\* fails; otherwise, and so also when a model is already held, it returns
\* a result with the four fields.
C8_NullIffNoModelHeldOrLoadable ==
    Predicted =>
        IF \/ (lastPred.model0 = NULL /\ ~ActiveModelLoadable)
           \/ PrepareStudentFeatures(lastPred.students[1]) = NULL
        THEN lastPred.returned = NULL
        ELSE /\ lastPred.returned # NULL
             /\ DOMAIN lastPred.returned = ResultFields

\* a call that returned null because the only ACTIVE record has no model
\* file, for a student whose features can be extracted
C8_Witness ==
    /\ Predicted
    /\ lastPred.model0 = NULL
    /\ \E i \in DOMAIN models : models[i].status = "active"
    /\ ~ActiveModelLoadable
    /\ PrepareStudentFeatures(lastPred.students[1]) # NULL
    /\ lastPred.returned = NULL

\* C9: batch_predict returns one result per student for whom
\* predict_performance succeeds, in input order, each tagged with the id of
\* its student, and leaves out the students for whom it fails.
C9_BatchOneResultPerSuccess ==
    (lastPred # NULL /\ lastPred.call = "batch") =>
        LET canPredict == lastPred.model0 # NULL \/ ActiveModelLoadable
            ok == SelectSeq(lastPred.students,
                            LAMBDA st : canPredict /\ PrepareStudentFeatures(st) # NULL)
            out == lastPred.returned
        IN /\ Len(out) = Len(ok)
           /\ \A i \in DOMAIN out :
                 /\ out[i].student_id = ok[i]
                 /\ DOMAIN out[i] = ResultFields \cup {"student_id"}
                 /\ \A k \in ResultFields :
                       out[i][k] = PredictPerformance(models, files, svc, ok[i],
                                                      lastPred.prediction_type).result[k]

\* a batch of three students whose second student fails: two results, for
\* the first and the third student, in that order
C9_Witness ==
    /\ lastPred # NULL
    /\ lastPred.call = "batch"
    /\ Len(lastPred.students) = 3
    /\ PrepareStudentFeatures(lastPred.students[2]) = NULL
    /\ Len(lastPred.returned) = 2
    /\ lastPred.returned[1].student_id = lastPred.students[1]
    /\ lastPred.returned[2].student_id = lastPred.students[3]

\* C10: a successful train_model leaves the set of ACTIVE records as it
\* was, the new record is not ACTIVE, and load_model() with no id selects
\* the same record as before.
C10_TrainKeepsActiveSet ==
    (lastTrain # NULL /\ lastTrain.returned # 0) =>
        /\ ActiveSet(models) = lastTrain.active0
        /\ models[lastTrain.returned].status # "active"
        /\ NewestActive(models) = lastTrain.selected0

(***************************************************************************)
(* Properties of activation.  lastAct describes the last activate call     *)
(* when nothing has touched the model records since: pk is the record      *)
(* activated, active0 the set of records that were ACTIVE when it began.   *)
(***************************************************************************)

\* C11: after activate(m), from any prior state, m is the only ACTIVE
\* record and every other record that was ACTIVE before the call is
\* DEPRECATED.
C11_ActivateLeavesOneActive ==
    lastAct # NULL =>
        /\ ActiveSet(models) = {lastAct.pk}
        /\ \A i \in lastAct.active0 \ {lastAct.pk} : models[i].status = "deprecated"

\* an activate call that began with several ACTIVE records and left the
\* other one DEPRECATED
C11_Witness ==
    /\ lastAct # NULL
    /\ Cardinality(lastAct.active0) >= 2
    /\ ActiveSet(models) = {lastAct.pk}
    /\ \E i \in lastAct.active0 : i # lastAct.pk /\ models[i].status = "deprecated"

\* C12: the scaler the service holds belongs to the same model record as
\* the model it holds (or the service holds no scaler): a model is never
\* held together with the scaler of a model loaded before it.
C12_ScalerBelongsToModel ==
    svc.model # NULL =>
        \/ svc.scaler = NULL
        \/ svc.scaler.scaler_of = svc.model.of

(***************************************************************************)
(* Properties of the rule engine's functions taken on their own.           *)
(***************************************************************************)

\* C13: _evaluate_condition returns, for every trigger value v and
\* threshold t: for eq whether |v - t| < 0.001, for ne the negation of
\* that, for lt, lte, gt, gte the order comparison, and false for any other
\* operator string.
C13_ConditionSemantics ==
    fnOut # NULL =>
        /\ ~fnOut.raised
        /\ fnOut.met = ConditionHolds(fnIn.condition, fnIn.value, fnIn.threshold)

(***************************************************************************)
(* Properties of the recommendation engine.                                *)
(***************************************************************************)

\* C14: analyze_student_needs is monotonic in the stored GPA: every need
\* reported for a student is also reported for the student with any lower
\* GPA of 0.00 .. 4.00 and everything else the same.
C14_NeedsMonotonicInGpa ==
    (fnOut # NULL /\ fnIn.profile.gpa # <<>>) =>
        \A g \in 0..MaxGpa :
            g < fnIn.profile.gpa[1] =>
                Range(fnOut.needs)
                    \subseteq Range(AnalyzeStudentNeeds(
                                  [fnIn.profile EXCEPT !.gpa = <<g>>], now))

\* C15: dropout_risk is reported exactly when the weighted sum of the risk
\* factors is at least 4: GPA < 2.0 (+2), attendance rate < 80% (+2), more
\* than 5 negative behaviour records in the last 30 days (+1), low family
\* income (+1), learning disability (+1).
C15_DropoutRiskIffWeightedSum ==
    fnOut # NULL =>
        LET p == fnIn.profile
            present == Cardinality({i \in DOMAIN p.attendance :
                                       p.attendance[i] \in {"present", "late"}})
            negative == Cardinality({i \in DOMAIN p.behavior :
                                        /\ p.behavior[i].behavior_type = "negative"
                                        /\ p.behavior[i].incident_date >= now - 30 * Day})
            weighted ==
                  (IF p.gpa # <<>> /\ p.gpa[1] < 200 THEN 2 ELSE 0)
                + (IF p.attendance # <<>> /\ present * 100 < 80 * Len(p.attendance)
                   THEN 2 ELSE 0)
                + (IF negative > 5 THEN 1 ELSE 0)
                + (IF p.family_income_bracket = "low" THEN 1 ELSE 0)
                + (IF p.has_learning_disability THEN 1 ELSE 0)
        IN ("dropout_risk" \in Range(fnOut.needs)) <=> (weighted >= 4)

\* the rows of a list of recommendations made for one need
Titled(rows, need) == SelectSeq(rows, LAMBDA r : r.title = need)

\* the needs the analysis reported at the last call
AnalysedNeeds == Range(AnalyzeStudentNeeds(lastGen.prediction.student, lastGen.at))

\* priority a is at least priority b in low < medium < high < urgent
AtLeast(a, b) ==
    \/ a = b
    \/ b = "low"
    \/ a = "urgent"
    \/ (a = "high" /\ b = "medium")

\* C16: one call of generate_recommendations creates exactly one
\* Recommendation for each distinct identified need whose template priority
\* is at least priority_threshold (low < medium < high < urgent) and none
\* for any other need; no returned recommendation is below the threshold.
C16_OneRecommendationPerNeed ==
    lastGen # NULL =>
        LET identified == AnalysedNeeds \cup Range(PredictionNeeds(lastGen.prediction))
            returned == lastGen.returned
        IN /\ \A need \in Range(NeedSeq) :
                Len(Titled(returned, need)) =
                    IF /\ need \in identified
                       /\ AtLeast(TemplatePriority[need], lastGen.priority_threshold)
                    THEN 1 ELSE 0
           /\ \A i \in DOMAIN returned :
                /\ returned[i].title \in Range(NeedSeq)
                /\ returned[i].priority = TemplatePriority[returned[i].title]
                /\ AtLeast(returned[i].priority, lastGen.priority_threshold)
           /\ Len(recs) = lastGen.recs0 + Len(returned)
           /\ \A i \in DOMAIN returned : recs[lastGen.recs0 + i] = returned[i]

\* a need identified by the analysis and by the prediction got one
\* recommendation, and an identified need below the threshold got none
C16_Witness ==
    /\ lastGen # NULL
    /\ "low_gpa" \in AnalysedNeeds
    /\ "low_gpa" \in Range(PredictionNeeds(lastGen.prediction))
    /\ Len(Titled(lastGen.returned, "low_gpa")) = 1
    /\ lastGen.priority_threshold = "high"
    /\ "low_engagement" \in AnalysedNeeds
    /\ Titled(lastGen.returned, "low_engagement") = <<>>

\* C17: the needs of a call are the analysed needs plus dropout_risk for a
\* critical prediction of type dropout, low_gpa for a critical prediction
\* of any other type, low_gpa and subject_specific_help for a high-risk
\* prediction and nothing for medium and low; a critical dropout
\* prediction yields an urgent dropout_risk recommendation under every
\* threshold.
C17_PredictionDrivenNeeds ==
    lastGen # NULL =>
        LET prediction == lastGen.prediction
            added ==
                IF prediction.risk_level = "critical" /\ prediction.prediction_type = "dropout"
                THEN {"dropout_risk"}
                ELSE IF prediction.risk_level = "critical" THEN {"low_gpa"}
                ELSE IF prediction.risk_level = "high"
                THEN {"low_gpa", "subject_specific_help"}
                ELSE {}
        IN /\ {lastGen.returned[i].title : i \in DOMAIN lastGen.returned}
                = {need \in AnalysedNeeds \cup added :
                      AtLeast(TemplatePriority[need], lastGen.priority_threshold)}
           /\ (prediction.risk_level = "critical" /\ prediction.prediction_type = "dropout")
                => \E i \in DOMAIN lastGen.returned :
                      /\ lastGen.returned[i].title = "dropout_risk"
                      /\ lastGen.returned[i].priority = "urgent"

\* a critical dropout prediction of a student the analysis reports no
\* dropout risk for, under the highest threshold
C17_Witness ==
    /\ lastGen # NULL
    /\ lastGen.prediction.risk_level = "critical"
    /\ lastGen.prediction.prediction_type = "dropout"
    /\ lastGen.priority_threshold = "urgent"
    /\ "dropout_risk" \notin AnalysedNeeds
    /\ Len(lastGen.returned) = 1
    /\ lastGen.returned[1].title = "dropout_risk"

\* C18: for every recommendation generate_recommendations created,
\* due_date - created_at is exactly 3 days for priority urgent, 7 days for
\* high, 14 days for medium and 30 days for low.
C18_DueDateExactlyDaysAfterCreation ==
    \A i \in DOMAIN recs :
        recs[i].due_date - recs[i].created_at =
            CASE recs[i].priority = "urgent" -> 3 * Day
              [] recs[i].priority = "high" -> 7 * Day
              [] recs[i].priority = "medium" -> 14 * Day
              [] OTHER -> 30 * Day

(***************************************************************************)
(* Properties of the trigger values.                                       *)
(***************************************************************************)

\* C19: for a grade_threshold rule the trigger value of a student with at
\* least one grade is the mean percentage of the 10 most recent grades, and
\* of a student with no grade it is the stored GPA times 25, for every
\* stored GPA including 0.00.
C19_GradeTriggerValue ==
    (fnOut # NULL /\ fnIn.trigger_type = "grade_threshold") =>
        LET student == fnIn.student
            recent == FirstN(student.grades, 10)
            value == fnOut.value
        IN IF student.grades # <<>>
           THEN /\ value # NULL
                /\ value.n * Len(recent) = SumSeq(recent) * value.d
           ELSE student.gpa # <<>> =>
                    /\ value # NULL
                    /\ value.n * 100 = student.gpa[1] * 25 * value.d

\* C20: for a prediction_risk rule the trigger value is 3 or 4, the rank of
\* the most recent prediction that is active and of risk level high or
\* critical, and 0.0 when the student has no such prediction; an older such
\* prediction determines the value when the newest prediction is low or
\* medium.
C20_PredictionRiskTriggerValue ==
    (fnOut # NULL /\ fnIn.trigger_type = "prediction_risk") =>
        LET predictions == fnIn.student.predictions
            qualifying == {i \in DOMAIN predictions :
                              /\ predictions[i].is_active
                              /\ predictions[i].risk_level \in {"high", "critical"}}
            newest == CHOOSE i \in qualifying : \A j \in qualifying : i <= j
            rank == IF qualifying = {} THEN 0
                    ELSE IF predictions[newest].risk_level = "high" THEN 3 ELSE 4
        IN /\ fnOut.value = [n |-> rank, d |-> 1, t |-> "float"]
           /\ fnOut.value.n \in {0, 3, 4}

\* the newest prediction is active and of low or medium risk, an older
\* one is active and critical, and the value is 4
C20_Witness ==
    /\ fnOut # NULL
    /\ fnIn.trigger_type = "prediction_risk"
    /\ Len(fnIn.student.predictions) = 2
    /\ fnIn.student.predictions[1].is_active
    /\ fnIn.student.predictions[1].risk_level \in {"low", "medium"}
    /\ fnIn.student.predictions[2].is_active
    /\ fnIn.student.predictions[2].risk_level = "critical"
    /\ fnOut.value = Float(4)

(***************************************************************************)
(* Properties of the feature vector.                                       *)
(***************************************************************************)

\* C21: the attendance_rate feature prepare_student_features produces is
\* exactly 0.95 for every student with no attendance record and
\* (present + late) / total, a value in [0, 1], for every student with at
\* least one.
C21_AttendanceRateFeature ==
    fnOut # NULL =>
        LET attendance == fnIn.student.attendance
            attended == Cardinality({i \in DOMAIN attendance :
                                        attendance[i] \in {"present", "late"}})
            features == fnOut.features
        IN /\ features # NULL
           /\ IF attendance = <<>>
              THEN features.attendance_rate.n * 100 = 95 * features.attendance_rate.d
              ELSE /\ features.attendance_rate.n * Len(attendance)
                          = attended * features.attendance_rate.d
                   /\ 0 <= features.attendance_rate.n
                   /\ features.attendance_rate.n <= features.attendance_rate.d

(***************************************************************************)
(* Properties of concurrent requests.                                      *)
(***************************************************************************)

\* C22: no two log rows of one (rule, student) pair with cooldown_hours > 0
\* lie within cooldown_hours of each other, also when two
\* evaluate_notification_rules calls run at once over the pair: at most one
\* of them fires.
C22_CooldownUnderInterleaving ==
    \A i, j \in DOMAIN logs :
        (/\ i < j
         /\ logs[i].rule = logs[j].rule
         /\ logs[i].student = logs[j].student
         /\ NotificationRule[logs[i].rule].cooldown_hours > 0)
        => logs[j].triggered_at - logs[i].triggered_at
               > NotificationRule[logs[i].rule].cooldown_hours * Hour

\* C25: a rule whose is_active flag is false never creates a notification or
\* an execution-log row, whether the evaluation runs over the default rule
\* set, over an explicit rule list or from the trigger_notification_rules
\* endpoint called with a rule_id.
C25_InactiveRuleNeverFires ==
    /\ \A i \in DOMAIN logs : NotificationRule[logs[i].rule].is_active
    /\ \A i \in DOMAIN notifs :
          notifs[i].rule # "" => NotificationRule[notifs[i].rule].is_active

\* C23: the update of activate that demotes the ACTIVE records leaves no
\* record ACTIVE until the save that follows it, and a predict_performance
\* call made while no record is ACTIVE, on a service that holds no model,
\* finds no active model and returns null.
C23_SwapRacesWithInference ==
    [][/\ \A w \in Workers :
            (/\ swap[w] # NULL /\ swap[w].pc = "demote"
             /\ swap'[w] # NULL /\ swap'[w].pc = "save")
            => ActiveSet(models') = {}
       /\ (/\ lastPred' # NULL
           /\ svc.model = NULL
           /\ ActiveSet(models) = {})
          => (lastPred'.returned = NULL /\ svc'.model = NULL)]_vars

\* a worker is between the demotion and the save of an activate that began
\* with an ACTIVE record, no record is ACTIVE, and a prediction for a
\* student whose features can be prepared has just returned null on a
\* service that holds no model
C23_Witness ==
    /\ \E w \in Workers :
          /\ swap[w] # NULL
          /\ swap[w].pc = "save"
          /\ swap[w].active0 # {}
    /\ ActiveSet(models) = {}
    /\ lastPred # NULL
    /\ lastPred.call = "predict"
    /\ lastPred.model0 = NULL
    /\ PrepareStudentFeatures(lastPred.students[1]) # NULL
    /\ lastPred.returned = NULL
    /\ svc.model = NULL

(***************************************************************************)
(* Properties of a delivery pass.                                          *)
(***************************************************************************)

\* the rows a step attempted to deliver: the rows it marked sent or failed
Attempted ==
    {i \in DOMAIN notifs :
        /\ notifs'[i].history # notifs[i].history
        /\ notifs'[i].status \in {"sent", "failed"}}

\* C24: a send_pending_notifications pass attempts exactly the rows that are
\* pending with scheduled_at <= now, never a row of another status or one
\* scheduled later; every row it attempts ends the pass sent or failed,
\* whatever happened to the others, and the returned sent + failed is the
\* number of rows attempted.
C24_PassAttemptsPendingDueOnly ==
    [][SendPending =>
          /\ Attempted = {i \in DOMAIN notifs :
                             /\ notifs[i].status = "pending"
                             /\ notifs[i].scheduled_at <= now}
          /\ \A i \in DOMAIN notifs : i \notin Attempted => notifs'[i] = notifs[i]
          /\ lastSend'.attempted = Attempted
          /\ lastSend'.returned.sent
                 = Cardinality({i \in Attempted : notifs'[i].status = "sent"})
          /\ lastSend'.returned.failed
                 = Cardinality({i \in Attempted : notifs'[i].status = "failed"})
          /\ lastSend'.returned.sent + lastSend'.returned.failed
                 = Cardinality(Attempted)]_vars

\* a pass attempted two rows: the first failed, the second was sent all the
\* same
C24_Witness ==
    /\ lastSend # NULL
    /\ lastSend.attempted = {1, 2}
    /\ lastSend.returned = [sent |-> 1, failed |-> 1]
    /\ notifs[1].status = "failed"
    /\ notifs[2].status = "sent"

\* C26: delivery_attempts of a notification is the number of times its
\* delivery was attempted, whether the attempt succeeded (the row was
\* marked sent) or failed (the row was marked failed).
C26_DeliveryAttemptsCountsAttempts ==
    \A i \in DOMAIN notifs :
        notifs[i].delivery_attempts
            = Len(SelectSeq(notifs[i].history, LAMBDA st : st \in {"sent", "failed"}))

(***************************************************************************)
(* Properties of test_notification_rule.                                   *)
(***************************************************************************)

\* C27: test_notification_rule is read-only: it creates no notification and
\* no log row and so leaves every cooldown as it is; it does not consult the
\* cooldown; and the would_create_notifications it reports equals
\* condition_met, which is the truth of the rule's condition and false when
\* the trigger value is null.
C27_TestRuleIsReadOnly ==
    [][(fnOut' # fnOut \/ fnIn' # fnIn) =>
          LET rule == fnIn'.rule
              student == fnIn'.student
              r == NotificationRule[rule]
              trigger_value == GetTriggerValue(rule, student, now)
          IN /\ logs' = logs
             /\ notifs' = notifs
             /\ \A x \in RuleIds, y \in Students :
                   IsRuleInCooldown(logs', now', x, y) = IsRuleInCooldown(logs, now, x, y)
             /\ "would_create_notifications" \in DOMAIN fnOut' =>
                   /\ fnOut'.would_create_notifications = fnOut'.condition_met
                   /\ fnOut'.condition_met =
                         (/\ trigger_value # NULL
                          /\ ConditionHolds(r.condition, trigger_value, r.threshold_value))
                   /\ trigger_value = NULL => ~fnOut'.condition_met]_vars

\* a rule was tested for a student it is in cooldown for, and reported that
\* it would create notifications
C27_Witness ==
    /\ fnOut # NULL
    /\ fnIn.at = now
    /\ IsRuleInCooldown(logs, now, fnIn.rule, fnIn.student)
    /\ "would_create_notifications" \in DOMAIN fnOut
    /\ fnOut.would_create_notifications

(***************************************************************************)
(* Properties of the recipients' preferences.                              *)
(***************************************************************************)

\* the preferences of the user switch off the type of the template
TypeSwitchedOff(user, template) ==
    LET preferences == Preferences[user]
        ty == NotificationTemplate[template].notification_type
    IN /\ preferences # NULL
       /\ \/ ty = "grade_alert" /\ ~preferences.grade_alerts
          \/ ty = "attendance_warning" /\ ~preferences.attendance_warnings
          \/ ty = "behavior_incident" /\ ~preferences.behavior_incidents
          \/ ty = "prediction_alert" /\ ~preferences.prediction_alerts
          \/ ty = "recommendation_assigned" /\ ~preferences.recommendation_assignments
          \/ ty = "assignment_due" /\ ~preferences.assignment_reminders
          \/ ty = "system_announcement" /\ ~preferences.system_announcements

\* C28: when a rule fires, a target user whose preferences switch off the
\* template's notification type gets no notification and is not counted in
\* notifications_created; a target user with no preference record always
\* gets the (in-app) notification.
C28_OptOutsHonoured ==
    Evaluated =>
        \A i \in DOMAIN lastEval.trace :
            LET e == lastEval.trace[i]
                r == NotificationRule[e.rule]
                targets == GetTargetUsers(r.target_roles, e.student)
                made == NewNotifs(e.rule, e.student)
                got(u) == Len(SelectSeq(made, LAMBDA n : n.recipient = u))
            IN e.outcome = "fired" =>
                /\ \A u \in targets :
                      /\ TypeSwitchedOff(u, r.template) => got(u) = 0
                      /\ Preferences[u] = NULL => got(u) = 1
                /\ e.notifications_created = Len(made)

(***************************************************************************)
(* Properties of the stored predictions.                                   *)
(***************************************************************************)

\* C29: every PerformancePrediction the batch_predict endpoint stores
\* references the model record whose model produced the value, after any
\* sequence of train_model, activate and batch_predict.
C29_StoredPredictionReferencesItsModel ==
    (lastPred # NULL /\ lastPred.call = "view") =>
        \A i \in DOMAIN lastPred.successful_predictions :
            lastPred.successful_predictions[i].model
                = lastPred.successful_predictions[i].produced_by

(***************************************************************************)
(* Properties of repeated generation.                                      *)
(***************************************************************************)

\* C30: generate_recommendations is idempotent per prediction: no two
\* recommendations linked to one prediction are made from the same need
\* template, so a prediction never has more recommendations than there are
\* templates.
C30_OneRecommendationPerPredictionAndNeed ==
    /\ \A i, j \in DOMAIN recs :
          (i < j /\ recs[i].prediction = recs[j].prediction)
              => recs[i].title # recs[j].title
    /\ \A i \in DOMAIN recs :
          Cardinality({j \in DOMAIN recs : recs[j].prediction = recs[i].prediction})
              <= Len(NeedSeq)

====
